---- MODULE Spec2Model ----
(***************************************************************************)
(* candystore: a factory of randomised AFL data sets.                       *)
(*                                                                         *)
(* The model follows candystore/base_data.py (the CandyStore class: season *)
(* range resolution and schedule generation) and the four view transforms  *)
(* (fixtures, betting_odds, match_results, players).  Every random draw of  *)
(* numpy and Faker is an input of the action that consumes it, enumerated   *)
(* over a small family of values of the range the library call allows.      *)
(***************************************************************************)
EXTENDS Integers, Sequences, FiniteSets, TLC

VARIABLES
    current_year,   \* date.today().year, read by _season_range
    seasons,        \* self.seasons, the constructor's argument
    status,         \* "new" | "constructed" | "raised": outcome of CandyStore(seasons)
    error,          \* the exception raised by the constructor, or NoError
    season_range,   \* the years _season_range resolved for _generate_seasons
    base_matches,   \* self._base_matches, the rows of the base data frame
    returned,       \* what the latest accessor call returned, or Nothing
    first_call,     \* the schedule the first accessor call's result carried
    facade,         \* the module whose CandyStore class the instance is of
    calendar        \* the season _generate_season is working on, round by round

vars == <<current_year, seasons, status, error, season_range, base_matches,
          returned, first_call, facade, calendar>>

None == [none |-> TRUE]
Nothing == [view |-> "none"]
NoError == [type |-> "none", msg |-> ""]

(***************************************************************************)
(* Bounds of the model.                                                     *)
(***************************************************************************)
\* the largest number of seasons one instance is asked for
MaxSeasons == 2
\* rounds generated per season: week_count is capped at this many weeks
MaxWeeks == 5

(***************************************************************************)
(* Constants of base_data.py.                                               *)
(***************************************************************************)
FIRST_AFL_SEASON == 1897
MAR == 3
FIFTEENTH == 15
SEP == 9
THIRTIETH == 30
WEDNESDAY == 2
MIN_MATCH_HOUR == 12
MAX_MATCH_HOUR == 20
WEEK_IN_DAYS == 7
DAY_IN_HOURS == 24

NON_BRISBANE_TEAMS ==
    <<"Richmond", "Carlton", "Melbourne", "Greater Western Sydney", "Essendon",
      "Sydney", "Collingwood", "North Melbourne", "Western Bulldogs",
      "Fremantle", "Port Adelaide", "St Kilda", "Hawthorn", "Adelaide",
      "Gold Coast", "Geelong", "West Coast", "Fitzroy", "University">>

BRISBANE_TEAMS == <<"Brisbane Bears", "Brisbane Lions">>

VENUES ==
    <<"Football Park", "S.C.G.", "Windy Hill", "Subiaco", "Moorabbin Oval",
      "M.C.G.", "Kardinia Park", "Victoria Park", "Waverley Park",
      "Princes Park", "Western Oval", "W.A.C.A.", "Carrara", "Gabba",
      "Docklands", "York Park", "Manuka Oval", "Sydney Showground",
      "Adelaide Oval", "Bellerive Oval", "Marrara Oval", "Traeger Park",
      "Perth Stadium", "Stadium Australia", "Wellington", "Lake Oval",
      "East Melbourne", "Corio Oval", "Junction Oval", "Brunswick St",
      "Punt Rd", "Glenferrie Oval", "Arden St", "Olympic Park",
      "Yarraville Oval", "Toorak Park", "Euroa", "Coburg Oval",
      "Brisbane Exhibition", "North Hobart", "Bruce Stadium", "Yallourn",
      "Cazaly's Stadium", "Eureka Stadium", "Blacktown", "Jiangwan Stadium",
      "Albury", "Riverway Stadium", "AAMI Stadium", "ANZ Stadium",
      "UTAS Stadium", "Blacktown International", "Blundstone Arena",
      "Domain Stadium", "Etihad Stadium", "GMHBA Stadium", "MCG",
      "Mars Stadium", "Metricon Stadium", "Optus Stadium", "SCG",
      "Spotless Stadium", "TIO Stadium", "Westpac Stadium", "Marvel Stadium",
      "Canberra Oval", "TIO Traegar Park">>

(***************************************************************************)
(* Generic helpers.                                                         *)
(***************************************************************************)
Range(s) == {s[i] : i \in DOMAIN s}

Min(a, b) == IF a <= b THEN a ELSE b

\* list(...): the values of an iterable, as a list
list(iterable) == <<>> \o iterable

\* itertools.chain.from_iterable over a list of lists
RECURSIVE chain_from(_, _)
chain_from(lists, k) ==
    IF k > Len(lists) THEN <<>> ELSE lists[k] \o chain_from(lists, k + 1)

chain_from_iterable(lists) == chain_from(list(lists), 1)

\* Python's min() and max() of a non-empty tuple of integers
py_min(t) == CHOOSE x \in Range(t) : \A y \in Range(t) : x <= y
py_max(t) == CHOOSE x \in Range(t) : \A y \in Range(t) : x >= y

(***************************************************************************)
(* datetime arithmetic (proleptic Gregorian calendar, as Python's           *)
(* datetime): a datetime is [ord, hour, minute, second] with ord the        *)
(* date's ordinal (date.toordinal()).                                       *)
(***************************************************************************)
SECONDS_PER_MINUTE == 60
SECONDS_PER_HOUR == 60 * SECONDS_PER_MINUTE
SECONDS_PER_DAY == DAY_IN_HOURS * SECONDS_PER_HOUR

is_leap(y) == (y % 4 = 0) /\ ((y % 100 /= 0) \/ (y % 400 = 0))

days_before_year(y) ==
    ((y - 1) * 365) + ((y - 1) \div 4) - ((y - 1) \div 100) + ((y - 1) \div 400)

days_in_month(y, m) ==
    IF m = 2 THEN (IF is_leap(y) THEN 29 ELSE 28)
    ELSE IF m \in {4, 6, 9, 11} THEN 30 ELSE 31

RECURSIVE days_before_month(_, _)
days_before_month(y, m) ==
    IF m = 1 THEN 0 ELSE days_before_month(y, m - 1) + days_in_month(y, m - 1)

\* datetime(y, m, d): midnight of that date
datetime(y, m, d) ==
    [ord |-> days_before_year(y) + days_before_month(y, m) + d,
     hour |-> 0, minute |-> 0, second |-> 0]

\* datetime.weekday(): Monday is 0
weekday(dt) == (dt.ord + 6) % 7

\* dt + timedelta(days=n)
plus_days(dt, n) == [dt EXCEPT !.ord = dt.ord + n]

\* dt + timedelta(seconds=n), n >= 0
plus_seconds(dt, n) ==
    LET total == (dt.hour * SECONDS_PER_HOUR) + (dt.minute * SECONDS_PER_MINUTE)
                 + dt.second + n
        tod == total % SECONDS_PER_DAY
    IN  [ord |-> dt.ord + (total \div SECONDS_PER_DAY),
         hour |-> tod \div SECONDS_PER_HOUR,
         minute |-> (tod % SECONDS_PER_HOUR) \div SECONDS_PER_MINUTE,
         second |-> tod % SECONDS_PER_MINUTE]

\* dt.replace(hour=h, minute=m, second=s)
replace_time(dt, h, m, s) == [dt EXCEPT !.hour = h, !.minute = m, !.second = s]

\* (a - b).days for datetimes at midnight
days_between(a, b) == a.ord - b.ord

\* dt.year
year_of(dt) ==
    CHOOSE y \in (dt.ord \div 366)..((dt.ord \div 365) + 1) :
        days_before_year(y) < dt.ord /\ dt.ord <= days_before_year(y + 1)

\* dt.month
month_of(dt) ==
    LET y == year_of(dt)
        n == dt.ord - days_before_year(y)
    IN  CHOOSE m \in 1..12 :
            days_before_month(y, m) < n /\ n <= days_before_month(y, m) + days_in_month(y, m)

\* dt.day
day_of(dt) ==
    LET y == year_of(dt)
    IN  dt.ord - days_before_year(y) - days_before_month(y, month_of(dt))

\* str(dt), "YYYY-MM-DD HH:MM:SS": the zero-padded fields of the string, in
\* their order, so that the order of the strings is the order of the tuples
datetime_str(dt) ==
    <<year_of(dt), month_of(dt), day_of(dt), dt.hour, dt.minute, dt.second>>

\* str(dt.date()), "YYYY-MM-DD"
date_str(dt) == <<year_of(dt), month_of(dt), day_of(dt)>>

\* lexicographic order of two date strings of the same form
RECURSIVE str_leq(_, _)
str_leq(a, b) ==
    IF a = <<>> THEN TRUE
    ELSE IF Head(a) /= Head(b) THEN Head(a) < Head(b)
    ELSE str_leq(Tail(a), Tail(b))

(***************************************************************************)
(* Season range resolution (CandyStore._season_range and its helpers).      *)
(* A seasons argument is [kind, val]: kind "int" with an integer val, kind  *)
(* "tuple" with a tuple val, kind "list" (any other type) with a list val.  *)
(***************************************************************************)
Raise(type, msg) == [ok |-> FALSE, range |-> <<>>, error |-> [type |-> type, msg |-> msg]]
Return(years) == [ok |-> TRUE, range |-> years, error |-> NoError]

AT_LEAST_ONE_SEASON == "Must generate fixture data for at least one season."
PROVIDE_TWO_SEASONS == "Must provide two seasons to have a valid range"
SEASONS_IN_RANGE == "Provided seasons must be in the range"
FIRST_SEASON_LESS == "First season must be less than second to create a valid range."
UNKNOWN_SEASONS_TYPE == "seasons argument must be either an integer or a tuple of two integers"
CHOICE_OF_EMPTY == "'a' cannot be empty unless no samples are taken"

\* range(a, b) as the list of its values
py_range(a, b) == [i \in 1..(IF b > a THEN b - a ELSE 0) |-> a + i - 1]

\* np.arange(a, b) as the set of its values
np_arange(a, b) == a..(b - 1)

\* a resolver that lets a count of zero through (assert seasons >= 0)
int_season_range_from_zero(n, year, start_draw) ==
    IF ~(n >= 0) THEN Raise("AssertionError", AT_LEAST_ONE_SEASON)
    ELSE Return(py_range(start_draw, start_draw + n))

\* a resolver whose range ends one year late (end_season = start + seasons + 1)
int_season_range_one_more(n, year, start_draw) ==
    IF ~(n > 0) THEN Raise("AssertionError", AT_LEAST_ONE_SEASON)
    ELSE IF np_arange(FIRST_AFL_SEASON, year - n + 2) = {}
    THEN Raise("ValueError", CHOICE_OF_EMPTY)
    ELSE Return(py_range(start_draw, start_draw + n + 1))

\* a resolver that refuses next year as the end of a range (max <= current_year)
tuple_season_range_no_next_year(t, year) ==
    IF ~(Len(t) = 2) THEN Raise("AssertionError", PROVIDE_TWO_SEASONS)
    ELSE IF ~(py_min(t) >= FIRST_AFL_SEASON /\ py_max(t) <= year)
    THEN Raise("AssertionError", SEASONS_IN_RANGE)
    ELSE IF ~(t[1] < t[2]) THEN Raise("AssertionError", FIRST_SEASON_LESS)
    ELSE Return(py_range(t[1], t[2]))

\* a resolver that checks the range before the length (min and max of an empty
\* tuple raise ValueError)
tuple_season_range_before_length(t, year) ==
    IF Len(t) = 0 THEN Raise("ValueError", "min() arg is an empty sequence")
    ELSE IF ~(py_min(t) >= FIRST_AFL_SEASON /\ py_max(t) <= year + 1)
    THEN Raise("AssertionError", SEASONS_IN_RANGE)
    ELSE IF ~(Len(t) = 2) THEN Raise("AssertionError", PROVIDE_TWO_SEASONS)
    ELSE IF ~(t[1] < t[2]) THEN Raise("AssertionError", FIRST_SEASON_LESS)
    ELSE Return(py_range(t[1], t[2]))

\* a resolver that checks the order before the range
tuple_season_range_order_first(t, year) ==
    IF ~(Len(t) = 2) THEN Raise("AssertionError", PROVIDE_TWO_SEASONS)
    ELSE IF ~(t[1] < t[2]) THEN Raise("AssertionError", FIRST_SEASON_LESS)
    ELSE IF ~(py_min(t) >= FIRST_AFL_SEASON /\ py_max(t) <= year + 1)
    THEN Raise("AssertionError", SEASONS_IN_RANGE)
    ELSE Return(py_range(t[1], t[2]))

\* a resolver that lets equal bounds through (assert seasons[0] <= seasons[1])
tuple_season_range_equal_bounds(t, year) ==
    IF ~(Len(t) = 2) THEN Raise("AssertionError", PROVIDE_TWO_SEASONS)
    ELSE IF ~(py_min(t) >= FIRST_AFL_SEASON /\ py_max(t) <= year + 1)
    THEN Raise("AssertionError", SEASONS_IN_RANGE)
    ELSE IF ~(t[1] <= t[2]) THEN Raise("AssertionError", FIRST_SEASON_LESS)
    ELSE Return(py_range(t[1], t[2]))

\* a resolver whose latest start year is one year later
int_season_range_later_start(n, year, start_draw) ==
    IF ~(n > 0) THEN Raise("AssertionError", AT_LEAST_ONE_SEASON)
    ELSE LET max_start_season == year - n + 3
             end_season == start_draw + n
         IN  IF np_arange(FIRST_AFL_SEASON, max_start_season) = {}
             THEN Raise("ValueError", CHOICE_OF_EMPTY)
             ELSE Return(py_range(start_draw, end_season))

\* start_draw is the value np.random.choice draws from np.arange(FIRST_AFL_SEASON,
\* max_start_season); choice of an empty array raises ValueError
_int_season_range(n, year, start_draw) ==
    IF ~(n > 0) THEN Raise("AssertionError", AT_LEAST_ONE_SEASON)
    ELSE LET max_start_season == year - n + 2
             start_season == start_draw
             end_season == start_season + n
         IN  IF np_arange(FIRST_AFL_SEASON, max_start_season) = {}
             THEN Raise("ValueError", CHOICE_OF_EMPTY)
             ELSE Return(py_range(start_season, end_season))

_tuple_season_range(t, year) ==
    IF ~(Len(t) = 2) THEN Raise("AssertionError", PROVIDE_TWO_SEASONS)
    ELSE IF ~(py_min(t) >= FIRST_AFL_SEASON /\ py_max(t) <= year + 1)
    THEN Raise("AssertionError", SEASONS_IN_RANGE)
    ELSE IF ~(t[1] < t[2]) THEN Raise("AssertionError", FIRST_SEASON_LESS)
    ELSE Return(py_range(t[1], t[2]))

\* a dispatch that takes every sequence for a tuple
season_range_any_sequence(arg, year, start_draw) ==
    IF arg.kind = "int" THEN _int_season_range(arg.val, year, start_draw)
    ELSE _tuple_season_range(arg.val, year)

_season_range(arg, year, start_draw) ==
    IF arg.kind = "int" THEN _int_season_range(arg.val, year, start_draw)
    ELSE IF arg.kind = "tuple" THEN _tuple_season_range(arg.val, year)
    ELSE Raise("TypeError", UNKNOWN_SEASONS_TYPE)

(***************************************************************************)
(* Schedule generation.  A round's random draws are a record                *)
(*   [brisbane, team_shift, venue_shift, dates]:                            *)
(*   brisbane     the index np.random.choice picks in BRISBANE_TEAMS,       *)
(*   team_shift   the permutation np.random.permutation picks for the teams *)
(*   venue_shift  the permutation it picks for the venues (permutations are *)
(*                enumerated over the rotations of the list),               *)
(*   dates[m]     [first, second]: the two timestamps Faker draws for match *)
(*                m, in seconds after the start of the interval drawn from. *)
(***************************************************************************)
\* the rotation of a list by k places: the permutations the model enumerates
rotation(items, k) ==
    [i \in 1..Len(items) |-> items[((i - 1 + k) % Len(items)) + 1]]

np_random_permutation(items, k) == rotation(items, k)

\* teams drawn with replacement: the second slot repeats the first
teams_with_replacement(draw) ==
    LET valid_teams == NON_BRISBANE_TEAMS \o <<BRISBANE_TEAMS[draw.brisbane]>>
        teams == np_random_permutation(valid_teams, draw.team_shift)
    IN  list([i \in DOMAIN teams |-> IF i = 2 THEN teams[1] ELSE teams[i]])

\* teams drawn from every team, both Brisbane teams included
teams_with_both_brisbanes(draw) ==
    list(np_random_permutation(NON_BRISBANE_TEAMS \o BRISBANE_TEAMS, draw.team_shift))

_generate_teams(draw) ==
    LET valid_teams == NON_BRISBANE_TEAMS \o <<BRISBANE_TEAMS[draw.brisbane]>>
    IN  list(np_random_permutation(valid_teams, draw.team_shift))

\* FAKE.date_time_between_dates(datetime_start, datetime_end): the timestamp is
\* random.randint(start, end), both ends included; offset is the draw, in seconds
\* after datetime_start
date_time_between_dates(datetime_start, offset) == plus_seconds(datetime_start, offset)

_match_date_time(round_start_date, date_draw) ==
    LET raw_match_date_time ==
            date_time_between_dates(round_start_date, date_draw.first)
        raw_match_time ==
            date_time_between_dates(
                replace_time(raw_match_date_time, MIN_MATCH_HOUR, 0, 0),
                date_draw.second)
    IN  replace_time(raw_match_date_time, raw_match_time.hour,
                     raw_match_time.minute, raw_match_time.second)

_generate_match(round_number, round_start_date, teams, venue, date_draw) ==
    LET match_date_time == _match_date_time(round_start_date, date_draw)
    IN  [date |-> match_date_time,
         season |-> year_of(match_date_time),
         round |-> round_number,
         home_team |-> teams[1],
         away_team |-> teams[2],
         venue |-> venue]

\* a team count that leaves the chosen Brisbane team out
team_count_without_brisbane == Len(NON_BRISBANE_TEAMS)

team_count == Len(NON_BRISBANE_TEAMS) + 1
match_count == team_count \div 2

_generate_round(season_start, week, draw) ==
    LET round_start == plus_days(season_start, WEEK_IN_DAYS * week)
        round_number == week + 1
        teams == _generate_teams(draw)
        venues == list(np_random_permutation(VENUES, draw.venue_shift))
    IN  list([m \in 1..match_count |->
            _generate_match(round_number, round_start,
                            <<teams[(2 * m) - 1], teams[2 * m]>>, venues[m],
                            draw.dates[m])])

\* a season start moved forward to the first Wednesday on or after March 15
season_start_on_or_after(season) ==
    LET start_date == datetime(season, MAR, FIFTEENTH)
    IN  plus_days(start_date, (WEDNESDAY - weekday(start_date)) % WEEK_IN_DAYS)

\* the first day of the season's first round
season_start_of(season) ==
    LET start_date == datetime(season, MAR, FIFTEENTH)
        difference_from_wed == WEDNESDAY - weekday(start_date)
    IN  plus_days(start_date, difference_from_wed)

\* math.floor((season_end - season_start).days / WEEK_IN_DAYS)
season_week_count(season) ==
    LET season_end == datetime(season, SEP, THIRTIETH)
    IN  days_between(season_end, season_start_of(season)) \div WEEK_IN_DAYS

\* the weeks of a season of which a constructed instance holds the rounds: the
\* first MaxWeeks of them
week_count_of(season) == Min(season_week_count(season), MaxWeeks)

\* draws[week] are the draws of the round of that week (weeks from 0)
_generate_season(season, draws) ==
    LET season_start == season_start_of(season)
        week_count == week_count_of(season)
    IN  chain_from_iterable(
            [w \in 1..week_count |-> _generate_round(season_start, w - 1, draws[w - 1])])

_generate_seasons(years, draws) ==
    chain_from_iterable(
        [k \in 1..Len(years) |-> _generate_season(years[k], draws)])

\* a constructor that stores the argument and leaves the schedule for later
lazy_init(arg, year, start_draw, draws) ==
    LET r == _season_range(arg, year, start_draw)
    IN  [status |-> "constructed", error |-> r.error, range |-> r.range,
         base |-> IF r.ok THEN _generate_seasons(r.range, draws) ELSE <<>>]

\* CandyStore.__init__: the outcome of CandyStore(seasons)
CandyStore_init(arg, year, start_draw, draws) ==
    LET r == _season_range(arg, year, start_draw)
    IN  IF r.ok
        THEN [status |-> "constructed", error |-> NoError, range |-> r.range,
              base |-> _generate_seasons(r.range, draws)]
        ELSE [status |-> "raised", error |-> r.error, range |-> <<>>, base |-> <<>>]

(***************************************************************************)
(* The view transforms.  A returned view is [view, rows]; the players view  *)
(* is [view, ctx, rows]: ctx the per-match frame (player_match_data) and    *)
(* rows the merged rows, each holding the position in ctx of the match row  *)
(* it was joined with (on match_id) and the player's own columns.           *)
(***************************************************************************)
N_PLAYERS_PER_TEAM == 22
FINALS_ROUND_LABELS == <<"QF", "EF", "SF", "PF", "GF">>
BASELINE_BET_PAYOUT == 192      \* 1.92, in hundredths
WIN_ODDS_MULTIPLIER == 80       \* 0.8, in hundredths

\* df.groupby("season").cumcount(): seen[s] is the number of rows of season s
\* before row i
RECURSIVE cumcount_from(_, _, _)
cumcount_from(rows, i, seen) ==
    IF i > Len(rows) THEN <<>>
    ELSE LET s == rows[i].season
             n == IF s \in DOMAIN seen THEN seen[s] ELSE 0
         IN  <<n>> \o cumcount_from(rows, i + 1, (s :> (n + 1)) @@ seen)

cumcount(rows) == cumcount_from(rows, 1, <<>>)

\* a counter that starts every season at 1, as the match_number of
\* fixtures._generate_round does
season_game_from_one(df) == [i \in DOMAIN df |-> cumcount(df)[i] + 1]

\* season_game=lambda df: df.groupby("season").cumcount()
season_game_of(df) == cumcount(df)

\* a counter that runs on from one season to the next
game_without_groups(df) == [i \in DOMAIN df |-> i - 1]

\* game=lambda df: df.groupby("season").cumcount()
game_of(df) == cumcount(df)

\* season_group["round"].max() of every season group: season -> max round
max_rounds(rows) ==
    [s \in {rows[i].season : i \in DOMAIN rows} |->
        LET rounds == {rows[i].round : i \in {j \in DOMAIN rows : rows[j].season = s}}
        IN  CHOOSE r \in rounds : \A q \in rounds : q <= r]

\* the position of a season among the groups of groupby("season") (sorted)
group_index(groups, season) == Cardinality({s \in DOMAIN groups : s < season}) + 1

convert_to_fixtures(base) ==
    LET season_game == season_game_of(base)
    IN  [i \in DOMAIN base |->
            [date |-> datetime_str(base[i].date),
             season |-> base[i].season,
             season_game |-> season_game[i],
             round |-> base[i].round,
             home_team |-> base[i].home_team,
             away_team |-> base[i].away_team,
             venue |-> base[i].venue]]

\* a transform that returns the matches in reverse order
betting_odds_reversed(base, draw) ==
    [i \in DOMAIN base |->
        LET r == base[Len(base) + 1 - i]
        IN  [date |-> datetime_str(r.date), season |-> r.season, round |-> r.round,
             home_team |-> r.home_team, away_team |-> r.away_team, venue |-> r.venue]]

\* a transform that pays the home side whatever the scores
betting_odds_home_always_paid(base, draw) ==
    [i \in DOMAIN base |->
        LET d == draw[i]
            home_win_odds_diff ==
                IF d.home_line_odds > 0 THEN d.win_odds_diff ELSE (-1) * d.win_odds_diff
            away_won == IF d.away_score > d.home_score THEN 1 ELSE 0
        IN  [date |-> datetime_str(base[i].date), season |-> base[i].season,
             round |-> base[i].round, home_team |-> base[i].home_team,
             away_team |-> base[i].away_team, venue |-> base[i].venue,
             home_score |-> d.home_score, away_score |-> d.away_score,
             home_win_odds |-> BASELINE_BET_PAYOUT + home_win_odds_diff,
             away_win_odds |-> BASELINE_BET_PAYOUT - home_win_odds_diff,
             home_win_paid |-> BASELINE_BET_PAYOUT + home_win_odds_diff,
             away_win_paid |-> (BASELINE_BET_PAYOUT - home_win_odds_diff) * away_won,
             home_line_odds |-> d.home_line_odds,
             away_line_odds |-> d.home_line_odds * (-1),
             home_line_paid |-> BASELINE_BET_PAYOUT,
             away_line_paid |-> BASELINE_BET_PAYOUT * away_won]]

\* a side that is counted as the winner of a drawn match too
won_or_drew(score, other_score) == IF score >= other_score THEN 1 ELSE 0

\* (score > other_score).astype(int)
won_as_int(score, other_score) == IF score > other_score THEN 1 ELSE 0

\* draw[i] = [home_score, away_score, home_line_odds, win_odds_diff] of match i;
\* odds and payouts are in hundredths
convert_to_betting_odds(base, draw) ==
    [i \in DOMAIN base |->
        LET d == draw[i]
            home_win_odds_diff ==
                IF d.home_line_odds > 0 THEN d.win_odds_diff ELSE (-1) * d.win_odds_diff
            home_win_odds == BASELINE_BET_PAYOUT + home_win_odds_diff
            away_win_odds == BASELINE_BET_PAYOUT - home_win_odds_diff
            home_won == won_as_int(d.home_score, d.away_score)
            away_won == won_as_int(d.away_score, d.home_score)
        IN  [date |-> datetime_str(base[i].date),
             season |-> base[i].season,
             round |-> base[i].round,
             home_team |-> base[i].home_team,
             away_team |-> base[i].away_team,
             venue |-> base[i].venue,
             home_score |-> d.home_score,
             away_score |-> d.away_score,
             home_margin |-> d.home_score - d.away_score,
             away_margin |-> d.away_score - d.home_score,
             home_win_odds |-> home_win_odds,
             away_win_odds |-> away_win_odds,
             home_win_paid |-> home_win_odds * home_won,
             away_win_paid |-> away_win_odds * away_won,
             home_line_odds |-> d.home_line_odds,
             away_line_odds |-> d.home_line_odds * (-1),
             home_line_paid |-> BASELINE_BET_PAYOUT * home_won,
             away_line_paid |-> BASELINE_BET_PAYOUT * away_won]]

\* a map that takes the last five rounds for finals
round_type_map_last_five(max_round) == (max_round - Len(FINALS_ROUND_LABELS) + 1)..max_round

\* match_results._season_round_type_map: the round numbers mapped to "Finals"
_season_round_type_map(max_round) ==
    (max_round - Len(FINALS_ROUND_LABELS) + 2)..max_round

\* the round type of a row of a season group with that max round
_map_round_type_per_season(max_round, round) ==
    IF round \in _season_round_type_map(max_round) THEN "Finals" ELSE "Regular"

\* draw[i] = [home_goals, home_behinds, away_goals, away_behinds] of match i
convert_to_match_results(base, draw) ==
    LET game == game_of(base)
        max_round == max_rounds(base)
    IN  [i \in DOMAIN base |->
            LET d == draw[i]
                home_points == (d.home_goals * 6) + d.home_behinds
                away_points == (d.away_goals * 6) + d.away_behinds
            IN  [date |-> date_str(base[i].date),
                 game |-> game[i],
                 season |-> base[i].season,
                 round_type |->
                    _map_round_type_per_season(max_round[base[i].season], base[i].round),
                 round_number |-> base[i].round,
                 round |-> "R" \o ToString(base[i].round),
                 home_team |-> base[i].home_team,
                 away_team |-> base[i].away_team,
                 venue |-> base[i].venue,
                 home_goals |-> d.home_goals,
                 home_behinds |-> d.home_behinds,
                 home_points |-> home_points,
                 away_goals |-> d.away_goals,
                 away_behinds |-> d.away_behinds,
                 away_points |-> away_points,
                 margin |-> home_points - away_points]]

\* players._calculate_quarter_values: full[q] is the randint draw of quarter q
_calculate_quarter_values(full) == <<full[1] \div 4, full[2] \div 4, full[3] \div 4, full[4] \div 4>>

\* (hour as text + minute as text) read as an integer
_parse_player_start_time(dt) ==
    IF dt.minute < 10 THEN (dt.hour * 10) + dt.minute ELSE (dt.hour * 100) + dt.minute

\* a map of the last five rounds, one label each
finals_round_map_five_rounds(max_round, first_label, round_number) ==
    LET idx == round_number - (max_round - Len(FINALS_ROUND_LABELS) + 1)
    IN  IF idx < 0 \/ round_number > max_round THEN None
        ELSE IF idx = 0 THEN [none |-> FALSE, label |-> FINALS_ROUND_LABELS[first_label]]
        ELSE [none |-> FALSE, label |-> FINALS_ROUND_LABELS[idx + 1]]

\* players._season_finals_round_map(max_round).get(round_number), or None;
\* first_label is the index np.random.choice draws in FINALS_ROUND_LABELS[:2]
_season_finals_round_map(max_round, first_label, round_number) ==
    LET idx == round_number - (max_round - Len(FINALS_ROUND_LABELS) + 2)
    IN  IF idx < 0 \/ round_number > max_round THEN None
        ELSE IF idx = 0 THEN [none |-> FALSE, label |-> FINALS_ROUND_LABELS[first_label]]
        ELSE [none |-> FALSE, label |-> FINALS_ROUND_LABELS[idx + 2]]

\* the round column of a row of a season group, as text (astype(str))
_map_player_round_per_season(max_round, first_label, round) ==
    LET got == _season_finals_round_map(max_round, first_label, round)
    IN  IF got.none THEN ToString(round) ELSE got.label

sum4(q) == q[1] + q[2] + q[3] + q[4]

\* the rows of one side of one match; player_match_index counts from 0
_generate_players(player_match_index, player_match_row, team_column) ==
    [n \in 1..N_PLAYERS_PER_TEAM |->
        [match_id |-> player_match_index,
         id |-> (n - 1) + (player_match_index * N_PLAYERS_PER_TEAM * 2),
         playing_for |-> IF team_column = "home_team" THEN player_match_row.home_team
                         ELSE player_match_row.away_team]]

\* the players of the home side alone
match_players_home_only(player_match_index, player_match_row) ==
    list(_generate_players(player_match_index, player_match_row, "home_team"))

_generate_match_players(player_match_index, player_match_row) ==
    list(_generate_players(player_match_index, player_match_row, "home_team"))
    \o list(_generate_players(player_match_index, player_match_row, "away_team"))

\* a first finals label drawn anew for every row
first_label_per_row(draw, groups, season, i) == draw.first_labels[i]

\* np.random.choice(FINALS_ROUND_LABELS[:2]) of the map built for the group of
\* a season: one draw for the group, whichever of its rows i is mapped
first_label_of(draw, groups, season, i) ==
    draw.first_labels[group_index(groups, season)]

\* player_match_data: draw.quarters[i] = [hg, hb, ag, ab], four randint draws
\* each; draw.first_labels[k] the first finals label of the k-th season group
player_match_data(base, draw) ==
    LET max_round == max_rounds(base)
    IN  [i \in DOMAIN base |->
        LET home_quarter_goals == _calculate_quarter_values(draw.quarters[i].hg)
            home_quarter_behinds == _calculate_quarter_values(draw.quarters[i].hb)
            away_quarter_goals == _calculate_quarter_values(draw.quarters[i].ag)
            away_quarter_behinds == _calculate_quarter_values(draw.quarters[i].ab)
        IN  [match_id |-> i - 1,
             season |-> base[i].season,
             round |-> _map_player_round_per_season(
                            max_round[base[i].season],
                            first_label_of(draw, max_round, base[i].season, i),
                            base[i].round),
             local_start_time |-> _parse_player_start_time(base[i].date),
             date |-> date_str(base[i].date),
             venue |-> base[i].venue,
             home_team |-> base[i].home_team,
             away_team |-> base[i].away_team,
             hqg |-> home_quarter_goals,
             hqb |-> home_quarter_behinds,
             aqg |-> away_quarter_goals,
             aqb |-> away_quarter_behinds,
             home_score |-> (sum4(home_quarter_goals) * 6) + sum4(home_quarter_behinds),
             away_score |-> (sum4(home_quarter_goals) * 6) + sum4(home_quarter_behinds)]]

\* a join that pairs every player with the next match
merge_next_match(ctx, player_data) ==
    [k \in DOMAIN player_data |->
        [match |-> ((player_data[k].match_id + 1) % Len(ctx)) + 1,
         id |-> player_data[k].id,
         playing_for |-> player_data[k].playing_for]]

\* player_match_data.merge(player_data, how="right", on="match_id"): one row
\* per row of player_data, in its order, joined with the match row of the
\* same match_id (reset_index numbers the match rows 0, 1, ... in order, so
\* the row of match_id n is ctx[n + 1])
merge_right(ctx, player_data) ==
    [k \in DOMAIN player_data |->
        [match |-> player_data[k].match_id + 1,
         id |-> player_data[k].id,
         playing_for |-> player_data[k].playing_for]]

convert_to_players(base, draw) ==
    LET ctx == list(player_match_data(base, draw))
        player_data ==
            chain_from_iterable(
                [i \in DOMAIN ctx |-> _generate_match_players(ctx[i].match_id, ctx[i])])
    IN  [ctx |-> ctx, rows |-> merge_right(ctx, player_data)]

(***************************************************************************)
(* The inputs the model enumerates.                                         *)
(***************************************************************************)
\* date.today().year
CurrentYears == {2026}

\* years around the two ends of the valid range
YearSamples(year) ==
    {FIRST_AFL_SEASON - 1, FIRST_AFL_SEASON, FIRST_AFL_SEASON + 2,
     year, year + 1, year + 2}

\* integer arguments: non-positive counts, counts up to MaxSeasons, and the
\* first count that leaves no start year to choose from
IntArgs(year) == ((0 - MaxSeasons)..MaxSeasons) \cup {year - FIRST_AFL_SEASON + 2}

\* tuple arguments of every length up to 3; a valid range spans at most
\* MaxSeasons seasons
TupleArgs(year) ==
    {t \in UNION {[1..n -> YearSamples(year)] : n \in 0..3} :
        Len(t) = 2 => t[2] - t[1] <= MaxSeasons}

\* arguments that are neither an int nor a tuple: lists
ListArgs(year) == {<<FIRST_AFL_SEASON, year>>, <<>>}

\* the start years np.random.choice may draw: the two ends of the array
StartChoices(n, year) ==
    IF n > 0 /\ np_arange(FIRST_AFL_SEASON, year - n + 2) /= {}
    THEN {FIRST_AFL_SEASON, year - n + 1}
    ELSE {FIRST_AFL_SEASON}

\* Faker's draws for a match: seconds after round_start in 0..7 days, and
\* seconds after 12:00:00 in 0..8 hours (randint includes both ends)
DefaultDate == [first |-> (3 * SECONDS_PER_DAY) + 5000, second |-> 9000]
EarliestDate == [first |-> 0, second |-> 0]
LatestDate ==
    [first |-> WEEK_IN_DAYS * SECONDS_PER_DAY,
     second |-> (MAX_MATCH_HOUR - MIN_MATCH_HOUR) * SECONDS_PER_HOUR]

\* the draws of one round: the Brisbane team, the permutations, and the date
\* of the round's first match vary
RoundDraws ==
    {[brisbane |-> c[1], team_shift |-> c[2], venue_shift |-> c[2],
      dates |-> [m \in 1..match_count |-> IF m = 1 THEN c[3] ELSE DefaultDate]] :
        c \in {<<1, 0, EarliestDate>>, <<2, 1, LatestDate>>, <<1, 3, DefaultDate>>}}

\* the draws of a schedule: one round's draws for the even weeks of every
\* season and one for the odd weeks
ScheduleDraws ==
    {[w \in 0..(MaxWeeks - 1) |-> IF w % 2 = 0 THEN a ELSE b] :
        a \in RoundDraws, b \in RoundDraws}

\* numpy's draws for betting_odds(): every match won by the home side, or
\* matches the away side wins in turn with drawn matches (equal scores)
BettingDraws(n) ==
    {[i \in 1..n |-> [home_score |-> 100, away_score |-> 23, home_line_odds |-> 0,
                      win_odds_diff |-> 45]],
     [i \in 1..n |->
        IF i % 2 = 1
        THEN [home_score |-> 23, away_score |-> 147, home_line_odds |-> 88,
              win_odds_diff |-> 80]
        ELSE [home_score |-> 77, away_score |-> 77, home_line_odds |-> 12,
              win_odds_diff |-> 10]]}

\* numpy's draws for match_results(): the same draw for every match
ResultsDraws(n) ==
    {[i \in 1..n |-> d] :
        d \in {[home_goals |-> 2, home_behinds |-> 21, away_goals |-> 22,
                away_behinds |-> 3]}}

\* numpy's draws for players(): the same quarter draws for every match, and
\* the first finals label alternating over the seasons
PlayersDraws(n) ==
    {[quarters |-> [i \in 1..n |-> q],
      first_labels |-> [k \in 1..n |-> IF k % 2 = 1 THEN 1 ELSE 2]] :
        q \in {[hg |-> <<2, 7, 13, 22>>, hb |-> <<3, 4, 9, 21>>,
                ag |-> <<22, 22, 8, 2>>, ab |-> <<3, 3, 3, 3>>]}}

(***************************************************************************)
(* What a returned view says of the schedule: per match, its season, teams, *)
(* venue, calendar day and round (the round as text: the round column of    *)
(* fixtures, betting_odds and players, round_number of match_results).      *)
(* first_call remembers the matches of the first view an instance returned, *)
(* and whether a later call has followed.                                   *)
(***************************************************************************)
ROWS_PER_MATCH == 2 * N_PLAYERS_PER_TEAM

match_key(r, day, round) ==
    [season |-> r.season, home_team |-> r.home_team, away_team |-> r.away_team,
     venue |-> r.venue, day |-> day, round |-> round]

\* the key of row k of a returned view
row_key(out, k) ==
    LET r == IF out.view = "players" THEN out.ctx[out.rows[k].match] ELSE out.rows[k]
    IN  IF out.view = "players" THEN match_key(r, r.date, r.round)
        ELSE IF out.view = "match_results"
        THEN match_key(r, r.date, ToString(r.round_number))
        ELSE match_key(r, SubSeq(r.date, 1, 3), ToString(r.round))

\* the number of rows a view holds per match
rows_per_match(out) == IF out.view = "players" THEN ROWS_PER_MATCH ELSE 1

\* the keys of the matches of a returned view, from the first row of each
match_keys(out) ==
    [i \in 1..(Len(out.rows) \div rows_per_match(out)) |->
        row_key(out, ((i - 1) * rows_per_match(out)) + 1)]

(***************************************************************************)
(* The state machine.                                                       *)
(***************************************************************************)
Init ==
    /\ current_year \in CurrentYears
    /\ seasons = None
    /\ status = "new"
    /\ error = NoError
    /\ season_range = <<>>
    /\ base_matches = <<>>
    /\ returned = Nothing
    /\ first_call = Nothing
    /\ facade = "candystore.base_data"
    /\ calendar = Nothing

\* CandyStore(seasons): validation, resolution and generation in one call
Constructed(arg, start_draw, draws) ==
    LET r == CandyStore_init(arg, current_year, start_draw, draws)
    IN  /\ seasons' = arg
        /\ status' = r.status
        /\ error' = r.error
        /\ season_range' = r.range
        /\ base_matches' = r.base
        /\ UNCHANGED <<current_year, returned, first_call, facade, calendar>>

Construct ==
    /\ status = "new"
    /\ \/ \E n \in IntArgs(current_year) :
            \E start_draw \in StartChoices(n, current_year), draws \in ScheduleDraws :
                Constructed([kind |-> "int", val |-> n], start_draw, draws)
       \/ \E t \in TupleArgs(current_year) : \E draws \in ScheduleDraws :
            Constructed([kind |-> "tuple", val |-> t], FIRST_AFL_SEASON, draws)
       \/ \E l \in ListArgs(current_year) : \E draws \in ScheduleDraws :
            Constructed([kind |-> "list", val |-> l], FIRST_AFL_SEASON, draws)

\* the matches of a view, without their round
schedule_of(keys) ==
    [i \in DOMAIN keys |->
        [season |-> keys[i].season, home_team |-> keys[i].home_team,
         away_team |-> keys[i].away_team, venue |-> keys[i].venue,
         day |-> keys[i].day]]

\* an accessor returns out; the first result's schedule is remembered
Returns(out) ==
    /\ returned' = out
    /\ first_call' = IF first_call.view = "none"
                     THEN [view |-> "first", later |-> FALSE,
                           matches |-> schedule_of(match_keys(out))]
                     ELSE [first_call EXCEPT !.later = TRUE]
    /\ UNCHANGED <<current_year, seasons, status, error, season_range, base_matches,
                   facade, calendar>>

fixtures ==
    /\ status = "constructed"
    /\ Returns([view |-> "fixtures", rows |-> convert_to_fixtures(base_matches)])

betting_odds ==
    /\ status = "constructed"
    /\ \E draw \in BettingDraws(Len(base_matches)) :
        Returns([view |-> "betting_odds",
                 rows |-> convert_to_betting_odds(base_matches, draw)])

match_results ==
    /\ status = "constructed"
    /\ \E draw \in ResultsDraws(Len(base_matches)) :
        Returns([view |-> "match_results",
                 rows |-> convert_to_match_results(base_matches, draw)])

players ==
    /\ status = "constructed"
    /\ \E draw \in PlayersDraws(Len(base_matches)) :
        LET out == convert_to_players(base_matches, draw)
        IN  Returns([view |-> "players", ctx |-> out.ctx, rows |-> out.rows])

Next == Construct \/ fixtures \/ betting_odds \/ match_results \/ players

Spec == Init /\ [][Next]_vars

(***************************************************************************)
(* Properties of the generated schedule.                                    *)
(***************************************************************************)
ROW_VIEWS == {"fixtures", "betting_odds", "match_results"}

\* the round of a row: round_number in match_results, round elsewhere
round_of(row) == IF "round_number" \in DOMAIN row THEN row.round_number ELSE row.round

\* the (season, round) groups of a frame, and the rows of one of them
round_groups(rows) == {<<rows[i].season, round_of(rows[i])>> : i \in DOMAIN rows}
group_rows(rows, g) == {i \in DOMAIN rows : <<rows[i].season, round_of(rows[i])>> = g}

\* the home_team and away_team slots of a set of rows
team_slots(rows, G) == {<<i, side>> : i \in G, side \in {"home_team", "away_team"}}
slot_team(rows, slot) ==
    IF slot[2] = "home_team" THEN rows[slot[1]].home_team ELSE rows[slot[1]].away_team

\* the season values of a frame
season_values(rows) == {rows[i].season : i \in DOMAIN rows}

\* C1: in the fixtures, betting_odds and match_results views of a constructed
\* instance, no team name fills more than one home_team or away_team slot of
\* the matches of a (season, round) group.
C1_NoDuplicateTeams ==
    returned.view \in ROW_VIEWS =>
        \A g \in round_groups(returned.rows) :
            LET slots == team_slots(returned.rows, group_rows(returned.rows, g))
            IN  Cardinality({slot_team(returned.rows, sl) : sl \in slots})
                    = Cardinality(slots)

\* a match_results view of two seasons whose rounds hold a full set of matches
C1_Witness ==
    /\ returned.view = "match_results"
    /\ Cardinality(season_values(returned.rows)) = 2
    /\ \E g \in round_groups(returned.rows) :
        Cardinality(group_rows(returned.rows, g)) = match_count

\* C2: in every (season, round) group of a generated schedule, exactly one
\* home_team or away_team slot holds a team of BRISBANE_TEAMS.
BrisbaneSlots(rows, g) ==
    {sl \in team_slots(rows, group_rows(rows, g)) :
        slot_team(rows, sl) \in Range(BRISBANE_TEAMS)}

C2_OneBrisbaneTeam ==
    /\ \A g \in round_groups(base_matches) :
        Cardinality(BrisbaneSlots(base_matches, g)) = 1
    /\ returned.view \in ROW_VIEWS =>
        \A g \in round_groups(returned.rows) :
            Cardinality(BrisbaneSlots(returned.rows, g)) = 1

\* a fixtures view in which one round holds the Bears and another the Lions
C2_Witness ==
    /\ returned.view = "fixtures"
    /\ \E g, h \in round_groups(returned.rows) :
        /\ \E sl \in BrisbaneSlots(returned.rows, g) :
            slot_team(returned.rows, sl) = BRISBANE_TEAMS[1]
        /\ \E sl \in BrisbaneSlots(returned.rows, h) :
            slot_team(returned.rows, sl) = BRISBANE_TEAMS[2]

\* the rows a view orders: the match rows, one per match
ordered_rows(out) == IF out.view = "players" THEN out.ctx ELSE out.rows

\* the place of a round among the rounds of its season: the round number,
\* and 995..999 for the finals labels QF..GF of the players view
round_order(view, round) ==
    IF view /= "players" THEN round
    ELSE IF round \in Range(FINALS_ROUND_LABELS)
    THEN 994 + (CHOOSE k \in DOMAIN FINALS_ROUND_LABELS : FINALS_ROUND_LABELS[k] = round)
    ELSE CHOOSE n \in 1..MaxWeeks : ToString(n) = round

\* h is the round that follows g in g's season
follows(out, g, h) ==
    /\ g[1] = h[1]
    /\ round_order(out.view, g[2]) < round_order(out.view, h[2])
    /\ ~ \E k \in round_groups(ordered_rows(out)) :
            /\ k[1] = g[1]
            /\ round_order(out.view, g[2]) < round_order(out.view, k[2])
            /\ round_order(out.view, k[2]) < round_order(out.view, h[2])

\* C3: within every season of every view, ordering the rows by date gives
\* the order of the rounds: no match of a round is dated later than any
\* match of the round that follows it, whatever dates are drawn.
C3_DateOrderIsRoundOrder ==
    returned.view /= "none" =>
        LET rows == ordered_rows(returned)
        IN  \A g, h \in round_groups(rows) :
                follows(returned, g, h) =>
                    \A i \in group_rows(rows, g), j \in group_rows(rows, h) :
                        str_leq(rows[i].date, rows[j].date)

\* the same order in the views that date a match by its day alone
C3_DayOrderIsRoundOrder ==
    returned.view \in {"match_results", "players"} => C3_DateOrderIsRoundOrder

\* C4: when CandyStore(N) with an integer N > 0 succeeds, the resolved
\* seasons are the N consecutive years S..S+N-1 with S >= FIRST_AFL_SEASON and
\* S + N <= current_year + 2, and fixtures() holds exactly N season values.
C4_IntSeasonCount ==
    (status = "constructed" /\ seasons.kind = "int" /\ seasons.val > 0) =>
        LET N == seasons.val
            S == season_range[1]
        IN  /\ Len(season_range) = N
            /\ \A k \in 1..N : season_range[k] = S + k - 1
            /\ S >= FIRST_AFL_SEASON
            /\ S + N <= current_year + 2
            /\ returned.view = "fixtures" =>
                /\ Cardinality(season_values(returned.rows)) = N
                /\ season_values(returned.rows) = Range(season_range)

\* fixtures() of CandyStore(2) whose seasons start at the latest start year
C4_Witness ==
    /\ status = "constructed"
    /\ seasons.kind = "int"
    /\ seasons.val = 2
    /\ season_range[1] = current_year - 1
    /\ returned.view = "fixtures"

\* C5: CandyStore((a, b)) with FIRST_AFL_SEASON <= a < b <= current_year + 1
\* succeeds, and the season values of fixtures() are exactly a..b-1.
ValidRange(t) ==
    /\ Len(t) = 2
    /\ FIRST_AFL_SEASON <= t[1]
    /\ t[1] < t[2]
    /\ t[2] <= current_year + 1

C5_TupleSeasonCount ==
    (status /= "new" /\ seasons.kind = "tuple" /\ ValidRange(seasons.val)) =>
        /\ status = "constructed"
        /\ returned.view = "fixtures" =>
            /\ season_values(returned.rows) = seasons.val[1]..(seasons.val[2] - 1)
            /\ Cardinality(season_values(returned.rows)) = seasons.val[2] - seasons.val[1]

\* fixtures() of the range that ends at next year
C5_Witness ==
    /\ status = "constructed"
    /\ seasons.kind = "tuple"
    /\ seasons.val = <<current_year, current_year + 1>>
    /\ returned.view = "fixtures"
    /\ season_values(returned.rows) = {current_year}

\* fixtures() of the two-season range that starts at the first season
C5_WitnessTwoSeasons ==
    /\ status = "constructed"
    /\ seasons.kind = "tuple"
    /\ seasons.val = <<FIRST_AFL_SEASON, FIRST_AFL_SEASON + 2>>
    /\ returned.view = "fixtures"

\* a fixtures view in which a match of round 1, drawn at the very end of the
\* round's week, is dated at 20:00:00 of the day on which a match of round 2
\* starts at 12:00:00
C3_LaterThanNextRound ==
    /\ returned.view = "fixtures"
    /\ \E i, j \in DOMAIN returned.rows :
        /\ returned.rows[i].season = returned.rows[j].season
        /\ returned.rows[i].round = 1
        /\ returned.rows[j].round = 2
        /\ SubSeq(returned.rows[i].date, 1, 3) = SubSeq(returned.rows[j].date, 1, 3)
        /\ SubSeq(returned.rows[i].date, 4, 6) = <<MAX_MATCH_HOUR, 0, 0>>
        /\ SubSeq(returned.rows[j].date, 4, 6) = <<MIN_MATCH_HOUR, 0, 0>>

(***************************************************************************)
(* Properties of construction and of the accessors.                         *)
(***************************************************************************)
\* every season of the range holds match_count matches in each of its rounds,
\* and the schedule holds nothing else
FullyGenerated ==
    /\ \A k \in DOMAIN season_range :
        \A w \in 1..week_count_of(season_range[k]) :
            Cardinality(group_rows(base_matches, <<season_range[k], w>>)) = match_count
    /\ Cardinality(round_groups(base_matches)) * match_count = Len(base_matches)
    /\ season_values(base_matches) = Range(season_range)

\* C6: CandyStore(seasons) either raises during construction, and then there
\* is no schedule and no view is ever returned, or it returns an instance
\* whose schedule is fully generated; no error is left for a later call.
C6_ConstructionIsAtomic ==
    /\ status = "raised" =>
        /\ error /= NoError
        /\ base_matches = <<>>
        /\ returned = Nothing
        /\ first_call = Nothing
    /\ status = "constructed" =>
        /\ error = NoError
        /\ season_range /= <<>>
        /\ FullyGenerated
    /\ returned /= Nothing => status = "constructed"

\* a construction that raised for a range outside the valid years
C6_Witness ==
    /\ status = "raised"
    /\ seasons.kind = "tuple"
    /\ error = [type |-> "AssertionError", msg |-> SEASONS_IN_RANGE]

\* an instance of two seasons that has returned a view
C6_WitnessConstructed ==
    /\ status = "constructed"
    /\ Len(season_range) = 2
    /\ returned.view = "players"

\* the matches of the base schedule, as a view would show them
base_keys ==
    [i \in DOMAIN base_matches |->
        match_key(base_matches[i], date_str(base_matches[i].date),
                  ToString(base_matches[i].round))]

PlayerRowsAligned ==
    returned.view = "players" =>
        /\ Len(returned.rows) = ROWS_PER_MATCH * Len(returned.ctx)
        /\ \A k \in DOMAIN returned.rows :
            returned.rows[k].match = ((k - 1) \div ROWS_PER_MATCH) + 1

\* C8 as stated: row i of fixtures, of betting_odds and of match_results and
\* the 44 player rows of match i carry the season, home_team, away_team, venue,
\* calendar day and round of match i of the base schedule, with fixtures.round
\* = betting_odds.round = match_results.round_number = players.round.
C8_SameRoundInEveryView ==
    returned.view /= "none" =>
        /\ PlayerRowsAligned
        /\ match_keys(returned) = base_keys

\* the values players.round may take for a round of a season with max_round
\* rounds: the finals labels in the last four rounds, the round number before
player_round_values(round, max_round) ==
    IF round <= max_round - 4 THEN {ToString(round)}
    ELSE IF round = max_round - 3 THEN {"QF", "EF"}
    ELSE IF round = max_round - 2 THEN {"SF"}
    ELSE IF round = max_round - 1 THEN {"PF"}
    ELSE {"GF"}

\* C8, amended: the four views carry the season, home_team, away_team, venue
\* and calendar day of match i of the base schedule; fixtures.round =
\* betting_odds.round = match_results.round_number is its round number, and
\* players.round is that number as text before the season's last four rounds
\* and the finals label of the round (QF or EF, SF, PF, GF) in the last four.
C8_ConsistentViews ==
    returned.view /= "none" =>
        LET keys == match_keys(returned)
            max_round == max_rounds(base_matches)
        IN  /\ PlayerRowsAligned
            /\ schedule_of(keys) = schedule_of(base_keys)
            /\ returned.view /= "players" => keys = base_keys
            /\ returned.view = "players" =>
                \A i \in DOMAIN keys :
                    keys[i].round \in
                        player_round_values(base_matches[i].round,
                                            max_round[base_matches[i].season])

\* a players view of two seasons with a regular round and both QF and EF
C8_Witness ==
    /\ returned.view = "players"
    /\ \E i, j, k \in DOMAIN returned.ctx :
        /\ returned.ctx[i].round = "1"
        /\ returned.ctx[j].round = "QF"
        /\ returned.ctx[k].round = "EF"

\* C9: CandyStore(n) with an integer n <= 0 fails at construction with the
\* AssertionError that mentions "at least one season"; no schedule is made.
C9_NonPositiveCountRaises ==
    (status /= "new" /\ seasons.kind = "int" /\ seasons.val <= 0) =>
        /\ status = "raised"
        /\ error = [type |-> "AssertionError", msg |-> AT_LEAST_ONE_SEASON]
        /\ base_matches = <<>>

\* CandyStore(0) has raised
C9_Witness ==
    /\ status = "raised"
    /\ seasons.kind = "int"
    /\ seasons.val = 0

\* C10: CandyStore(t) with a tuple t of a length other than 2 fails with the
\* AssertionError that mentions "provide two seasons", whatever its values:
\* the length is checked before the range and the order.
C10_WrongLengthRaises ==
    (status /= "new" /\ seasons.kind = "tuple" /\ Len(seasons.val) /= 2) =>
        /\ status = "raised"
        /\ error = [type |-> "AssertionError", msg |-> PROVIDE_TWO_SEASONS]

\* a 3-tuple of years out of range and out of order has raised
C10_Witness ==
    /\ status = "raised"
    /\ seasons.kind = "tuple"
    /\ seasons.val = <<current_year + 2, FIRST_AFL_SEASON - 1, current_year>>

\* a two-element tuple with a year outside FIRST_AFL_SEASON..current_year + 1
OutOfRange(t) ==
    /\ Len(t) = 2
    /\ \/ py_min(t) < FIRST_AFL_SEASON
       \/ py_max(t) > current_year + 1

\* C11: CandyStore((a, b)) with min(a, b) < FIRST_AFL_SEASON or max(a, b) >
\* current_year + 1 fails with the AssertionError that mentions "seasons must
\* be in the range", whatever the order of a and b.
C11_OutOfRangeRaises ==
    (status /= "new" /\ seasons.kind = "tuple" /\ OutOfRange(seasons.val)) =>
        /\ status = "raised"
        /\ error = [type |-> "AssertionError", msg |-> SEASONS_IN_RANGE]

\* a range out of range at its first year and out of order has raised
C11_Witness ==
    /\ status = "raised"
    /\ seasons.kind = "tuple"
    /\ seasons.val = <<current_year + 2, FIRST_AFL_SEASON>>

\* C12: CandyStore((a, b)) with a and b in range and a >= b fails with the
\* AssertionError that mentions "First season must be less"; no schedule is
\* generated.
C12_UnorderedRaises ==
    (/\ status /= "new"
     /\ seasons.kind = "tuple"
     /\ Len(seasons.val) = 2
     /\ ~OutOfRange(seasons.val)
     /\ seasons.val[1] >= seasons.val[2]) =>
        /\ status = "raised"
        /\ error = [type |-> "AssertionError", msg |-> FIRST_SEASON_LESS]
        /\ base_matches = <<>>
        /\ season_range = <<>>

\* a range of equal bounds has raised
C12_Witness ==
    /\ status = "raised"
    /\ seasons.kind = "tuple"
    /\ seasons.val = <<current_year, current_year>>

\* a range of reversed bounds has raised
C12_WitnessReversed ==
    /\ status = "raised"
    /\ seasons.kind = "tuple"
    /\ seasons.val = <<current_year + 1, FIRST_AFL_SEASON>>

\* C13: CandyStore(seasons) with seasons neither an int nor a tuple fails at
\* construction with the TypeError "seasons argument must be either an integer
\* or a tuple of two integers", never with an AssertionError.
C13_UnknownTypeRaises ==
    (status /= "new" /\ seasons.kind \notin {"int", "tuple"}) =>
        /\ status = "raised"
        /\ error = [type |-> "TypeError", msg |-> UNKNOWN_SEASONS_TYPE]
        /\ base_matches = <<>>

\* a list of two valid years has raised
C13_Witness ==
    /\ status = "raised"
    /\ seasons.kind = "list"
    /\ seasons.val = <<FIRST_AFL_SEASON, current_year>>

(***************************************************************************)
(* Properties of the players view.                                          *)
(***************************************************************************)
\* the rows 44(i-1)+1..44i of the players view: those of match i when
\* PlayerRowsAligned holds
match_block(i) == (((i - 1) * ROWS_PER_MATCH) + 1)..(i * ROWS_PER_MATCH)

\* C14: for a base schedule of M matches players() returns 44*M rows: for
\* every match 22 rows with playing_for its home_team and 22 rows with
\* playing_for its away_team; the join drops and repeats no match.
C14_PlayerRowsPerMatch ==
    returned.view = "players" =>
        /\ Len(returned.rows) = 2 * N_PLAYERS_PER_TEAM * Len(base_matches)
        /\ Len(returned.ctx) = Len(base_matches)
        /\ PlayerRowsAligned
        /\ \A i \in DOMAIN base_matches :
            /\ returned.ctx[i].home_team = base_matches[i].home_team
            /\ returned.ctx[i].away_team = base_matches[i].away_team
            /\ Cardinality({k \in match_block(i) :
                    returned.rows[k].playing_for = base_matches[i].home_team})
                = N_PLAYERS_PER_TEAM
            /\ Cardinality({k \in match_block(i) :
                    returned.rows[k].playing_for = base_matches[i].away_team})
                = N_PLAYERS_PER_TEAM

\* the players view of a schedule of one season
C14_Witness ==
    /\ returned.view = "players"
    /\ Len(base_matches) = MaxWeeks * match_count
    /\ Len(returned.rows) = ROWS_PER_MATCH * MaxWeeks * match_count

\* C16: in every players() row the scores come from the side's own summed
\* quarter values: home_score = 6*(hq1g+..+hq4g) + (hq1b+..+hq4b) and
\* away_score = 6*(aq1g+..+aq4g) + (aq1b+..+aq4b).
C16_ScoresFromOwnQuarters ==
    returned.view = "players" =>
        \A k \in DOMAIN returned.rows :
            LET r == returned.ctx[returned.rows[k].match]
            IN  /\ r.home_score = (6 * sum4(r.hqg)) + sum4(r.hqb)
                /\ r.away_score = (6 * sum4(r.aqg)) + sum4(r.aqb)

\* a players row whose away_score is the sum of the home side's quarters and
\* not of the away side's
C16_AwayScoreFromHomeQuarters ==
    /\ returned.view = "players"
    /\ \E k \in DOMAIN returned.rows :
        LET r == returned.ctx[returned.rows[k].match]
        IN  /\ r.away_score = (6 * sum4(r.hqg)) + sum4(r.hqb)
            /\ r.away_score /= (6 * sum4(r.aqg)) + sum4(r.aqb)

\* C17: no two rows of players() share an id, be they of different matches or
\* of the two sides of one match.
C17_PlayerIdsUnique ==
    returned.view = "players" =>
        Cardinality({returned.rows[k].id : k \in DOMAIN returned.rows})
            = Len(returned.rows)

\* the first home player and the first away player of the first match carry
\* the same id
C17_SameIdOnBothSides ==
    /\ returned.view = "players"
    /\ returned.rows[1].match = returned.rows[N_PLAYERS_PER_TEAM + 1].match
    /\ returned.rows[1].playing_for /= returned.rows[N_PLAYERS_PER_TEAM + 1].playing_for
    /\ returned.rows[1].id = returned.rows[N_PLAYERS_PER_TEAM + 1].id

(***************************************************************************)
(* Properties of the match_results and betting_odds views.                  *)
(***************************************************************************)
\* the maximum round number of a season of a view
max_round_number(rows, season) ==
    LET rounds == {round_of(rows[i]) : i \in {j \in DOMAIN rows : rows[j].season = season}}
    IN  CHOOSE r \in rounds : \A q \in rounds : q <= r

\* the rows of match_results have round_type "Finals" in the last n rounds of
\* their season and "Regular" in the others
FinalsInLastRounds(n) ==
    returned.view = "match_results" =>
        \A s \in season_values(returned.rows) :
            LET R == max_round_number(returned.rows, s)
            IN  \A i \in DOMAIN returned.rows :
                    returned.rows[i].season = s =>
                        returned.rows[i].round_type =
                            IF returned.rows[i].round_number > R - n
                            THEN "Finals" ELSE "Regular"

\* C18 as stated: in match_results(), in a season of maximum round number R,
\* the five rounds R-4..R have round_type "Finals", every other round "Regular".
C18_LastFiveRoundsAreFinals == FinalsInLastRounds(5)

\* C18, amended: in match_results(), in a season of maximum round number R,
\* the four rounds R-3..R have round_type "Finals", every other round "Regular".
C18_LastFourRoundsAreFinals == FinalsInLastRounds(4)

\* a season of match_results with a regular round followed by a finals round
C18_Witness ==
    /\ returned.view = "match_results"
    /\ \E i, j \in DOMAIN returned.rows :
        /\ returned.rows[i].season = returned.rows[j].season
        /\ returned.rows[j].round_number = returned.rows[i].round_number + 1
        /\ returned.rows[i].round_type = "Regular"
        /\ returned.rows[j].round_type = "Finals"

\* what a side is paid: the payout when it won, zero otherwise
paid_if(won, payout) == IF won THEN payout ELSE 0

\* C19 as stated: in betting_odds() every paid field is the odds field of the
\* same name when that side won and zero otherwise, for the win odds and for
\* the line odds.
C19_PaidIsOddsWhenWon ==
    returned.view = "betting_odds" =>
        \A i \in DOMAIN returned.rows :
            LET r == returned.rows[i]
            IN  /\ r.home_win_paid = paid_if(r.home_score > r.away_score, r.home_win_odds)
                /\ r.away_win_paid = paid_if(r.away_score > r.home_score, r.away_win_odds)
                /\ r.home_line_paid = paid_if(r.home_score > r.away_score, r.home_line_odds)
                /\ r.away_line_paid = paid_if(r.away_score > r.home_score, r.away_line_odds)

\* C19, amended: home_win_paid and away_win_paid are the side's win odds when
\* that side won and zero otherwise; home_line_paid and away_line_paid are
\* BASELINE_BET_PAYOUT (1.92) when that side won and zero otherwise.
C19_PaidWhenWon ==
    returned.view = "betting_odds" =>
        \A i \in DOMAIN returned.rows :
            LET r == returned.rows[i]
            IN  /\ r.home_win_paid = paid_if(r.home_score > r.away_score, r.home_win_odds)
                /\ r.away_win_paid = paid_if(r.away_score > r.home_score, r.away_win_odds)
                /\ r.home_line_paid = paid_if(r.home_score > r.away_score, BASELINE_BET_PAYOUT)
                /\ r.away_line_paid = paid_if(r.away_score > r.home_score, BASELINE_BET_PAYOUT)

\* a betting_odds view whose away sides won, with line odds that differ from
\* the payout
C19_Witness ==
    /\ returned.view = "betting_odds"
    /\ returned.rows[1].away_score > returned.rows[1].home_score
    /\ returned.rows[1].away_line_odds /= BASELINE_BET_PAYOUT
    /\ returned.rows[1].away_line_paid = BASELINE_BET_PAYOUT
    /\ returned.rows[1].home_win_paid = 0

\* C20: in players(), local_start_time is the HHMM integer of the kickoff
\* time: 100*hour + minute, for every hour in 12..20 and every minute in 0..59.
C20_LocalStartTimeIsHHMM ==
    returned.view = "players" =>
        \A i \in DOMAIN returned.ctx :
            returned.ctx[i].local_start_time
                = (100 * base_matches[i].date.hour) + base_matches[i].date.minute

\* a match that kicks off at 12:00 has local_start_time 120
C20_MinuteLosesItsZero ==
    /\ returned.view = "players"
    /\ \E i \in DOMAIN returned.ctx :
        /\ base_matches[i].date.hour = MIN_MATCH_HOUR
        /\ base_matches[i].date.minute = 0
        /\ returned.ctx[i].local_start_time = (10 * MIN_MATCH_HOUR) + 0

(***************************************************************************)
(* The output shape of the accessors.  Three modules define a CandyStore    *)
(* class with the same accessors: the package itself (candystore, the class *)
(* "from candystore import CandyStore" gives), candystore.base_data and     *)
(* candystore.data_factory.  They differ in the default of to_dict.  The    *)
(* schedule of every class is generated as in candystore.base_data.         *)
(***************************************************************************)
FACADES == {"candystore", "candystore.base_data", "candystore.data_factory"}

\* the to_dict argument of a call: left out, None, or "records"
ToDictArgs == {"omitted", "None", "records"}

\* a default that is "records" in every class
default_records(class) == "records"

\* the default value of the to_dict parameter in the accessors of a class
default_to_dict(class) == IF class = "candystore" THEN "None" ELSE "records"

\* the value of to_dict in the body of the accessor
to_dict_value(class, arg) == IF arg = "omitted" THEN default_to_dict(class) ELSE arg

\* data_frame if to_dict is None else data_frame.to_dict(to_dict): the type
\* of what is returned
return_type(to_dict) == IF to_dict = "None" THEN "DataFrame" ELSE "list of dict"

\* the draws of a round and of a schedule used with every class
FacadeRoundDraw ==
    [brisbane |-> 1, team_shift |-> 0, venue_shift |-> 0,
     dates |-> [m \in 1..match_count |-> DefaultDate]]
FacadeDraws == [w \in 0..(MaxWeeks - 1) |-> FacadeRoundDraw]

InitFacade ==
    /\ current_year \in CurrentYears
    /\ seasons = None
    /\ status = "new"
    /\ error = NoError
    /\ season_range = <<>>
    /\ base_matches = <<>>
    /\ returned = Nothing
    /\ first_call = Nothing
    /\ facade \in FACADES
    /\ calendar = Nothing

\* CandyStore(0) and CandyStore(1) of the class
ConstructFacade ==
    /\ status = "new"
    /\ \E n \in 0..1 : \E start_draw \in StartChoices(n, current_year) :
        Constructed([kind |-> "int", val |-> n], start_draw, FacadeDraws)

\* an accessor called with arg returns the rows of out in the type to_dict asks
ReturnsAs(view, rows, arg) ==
    Returns([view |-> view, rows |-> rows, to_dict |-> arg,
             type |-> return_type(to_dict_value(facade, arg))])

fixtures_to_dict ==
    /\ status = "constructed"
    /\ \E arg \in ToDictArgs :
        ReturnsAs("fixtures", convert_to_fixtures(base_matches), arg)

betting_odds_to_dict ==
    /\ status = "constructed"
    /\ \E arg \in ToDictArgs, draw \in BettingDraws(Len(base_matches)) :
        ReturnsAs("betting_odds", convert_to_betting_odds(base_matches, draw), arg)

match_results_to_dict ==
    /\ status = "constructed"
    /\ \E arg \in ToDictArgs, draw \in ResultsDraws(Len(base_matches)) :
        ReturnsAs("match_results", convert_to_match_results(base_matches, draw), arg)

players_to_dict ==
    /\ status = "constructed"
    /\ \E arg \in ToDictArgs, draw \in PlayersDraws(Len(base_matches)) :
        LET out == convert_to_players(base_matches, draw)
        IN  Returns([view |-> "players", ctx |-> out.ctx, rows |-> out.rows,
                     to_dict |-> arg,
                     type |-> return_type(to_dict_value(facade, arg))])

NextFacade ==
    \/ ConstructFacade
    \/ fixtures_to_dict
    \/ betting_odds_to_dict
    \/ match_results_to_dict
    \/ players_to_dict

SpecFacade == InitFacade /\ [][NextFacade]_vars

\* C15 as stated: each accessor called without to_dict returns a list of
\* mapping-records, and the raw table only when to_dict=None is passed.
C15_DefaultIsRecords ==
    returned.view /= "none" =>
        /\ returned.to_dict = "omitted" => returned.type = "list of dict"
        /\ returned.type = "DataFrame" => returned.to_dict = "None"

\* C15, amended: each accessor returns the raw table when to_dict is None and
\* a list of mapping-records when it is "records"; called without to_dict, the
\* accessors of the class the package exports (candystore/__init__.py) return
\* the raw table, those of the classes of candystore/base_data.py and
\* candystore/data_factory.py a list of mapping-records.
C15_ShapeFollowsToDict ==
    returned.view /= "none" =>
        /\ returned.to_dict = "None" => returned.type = "DataFrame"
        /\ returned.to_dict = "records" => returned.type = "list of dict"
        /\ returned.to_dict = "omitted" =>
            returned.type = IF facade = "candystore" THEN "DataFrame"
                            ELSE "list of dict"

\* players() of the package's class, called without to_dict, returned a table
C15_Witness ==
    /\ facade = "candystore"
    /\ returned.view = "players"
    /\ returned.to_dict = "omitted"
    /\ returned.type = "DataFrame"

\* fixtures() of the class of candystore.base_data returned a list of records
C15_WitnessRecords ==
    /\ facade = "candystore.base_data"
    /\ returned.view = "fixtures"
    /\ returned.to_dict = "omitted"
    /\ returned.type = "list of dict"

(***************************************************************************)
(* The calendar of a season: _generate_season run round by round, for any  *)
(* season year and with every week of the season, to look at the season's  *)
(* start, its number of rounds and the dates of its matches.               *)
(***************************************************************************)
CalendarYears == FIRST_AFL_SEASON..2027

InitCalendar ==
    /\ current_year \in CurrentYears
    /\ seasons = None
    /\ status = "new"
    /\ error = NoError
    /\ season_range = <<>>
    /\ base_matches = <<>>
    /\ returned = Nothing
    /\ first_call = Nothing
    /\ facade = "candystore.base_data"
    /\ calendar = Nothing

\* _generate_season(season) up to its loop over the weeks
StartSeason ==
    /\ calendar.view = "none"
    /\ \E season \in CalendarYears :
        calendar' = [view |-> "season", season |-> season,
                     season_start |-> season_start_of(season),
                     week_count |-> season_week_count(season),
                     week |-> 0, round |-> <<>>]
    /\ UNCHANGED <<current_year, seasons, status, error, season_range, base_matches,
                   returned, first_call, facade>>

\* one turn of the loop of _generate_season: the round of the next week
GenerateRound ==
    /\ calendar.view = "season"
    /\ calendar.week < calendar.week_count
    /\ \E draw \in RoundDraws :
        calendar' = [calendar EXCEPT
                        !.round = _generate_round(calendar.season_start,
                                                  calendar.week, draw),
                        !.week = calendar.week + 1]
    /\ UNCHANGED <<current_year, seasons, status, error, season_range, base_matches,
                   returned, first_call, facade>>

NextCalendar == StartSeason \/ GenerateRound

SpecCalendar == InitCalendar /\ [][NextCalendar]_vars

\* March 15 of the season the calendar is of
march_fifteenth == datetime(calendar.season, MAR, FIFTEENTH)

\* C21 as stated: for every season year the computed season start is a
\* Wednesday on or after March 15.
C21_WednesdayOnOrAfterMarch15 ==
    calendar.view = "season" =>
        /\ weekday(calendar.season_start) = WEDNESDAY
        /\ days_between(calendar.season_start, march_fifteenth) >= 0

\* C21, amended: for every season year the computed season start is the
\* Wednesday of the Monday-to-Sunday week that holds March 15: a Wednesday
\* from March 11 to March 17, on or after March 15 when March 15 falls on a
\* Monday, Tuesday or Wednesday and before it when March 15 falls on a
\* Thursday, Friday, Saturday or Sunday.
C21_WednesdayOfMarch15Week ==
    calendar.view = "season" =>
        LET shift == days_between(calendar.season_start, march_fifteenth)
        IN  /\ weekday(calendar.season_start) = WEDNESDAY
            /\ shift = WEDNESDAY - weekday(march_fifteenth)
            /\ shift \in (0 - 4)..2
            /\ (shift >= 0) <=> (weekday(march_fifteenth) <= WEDNESDAY)

\* a season whose start is the Wednesday before March 15
C21_Witness ==
    /\ calendar.view = "season"
    /\ weekday(march_fifteenth) > WEDNESDAY
    /\ weekday(calendar.season_start) = WEDNESDAY
    /\ days_between(calendar.season_start, march_fifteenth) < 0

\* the matches of the round the calendar generated last
round_matches == {calendar.round[i] : i \in DOMAIN calendar.round}

\* the days from the season's start to the day of the match
days_into_season(match) == days_between(match.date, calendar.season_start)

\* C22 as stated: every match of round r is dated inside the round's week,
\* from season_start + 7(r-1) days up to but not including season_start + 7r
\* days, at a time of day from 12:00 up to but not including 20:00; the
\* replaced time of day never moves the match out of the week.
C22_InsideRoundWindow ==
    calendar.view = "season" =>
        \A match \in round_matches :
            /\ days_into_season(match) >= WEEK_IN_DAYS * (match.round - 1)
            /\ days_into_season(match) < WEEK_IN_DAYS * match.round
            /\ match.date.hour >= MIN_MATCH_HOUR
            /\ match.date.hour < MAX_MATCH_HOUR

\* a match of round r dated at 20:00:00 of the day season_start + 7r days, the
\* first day of round r + 1
C22_OnNextRoundsFirstDay ==
    /\ calendar.view = "season"
    /\ \E match \in round_matches :
        /\ match.round = calendar.week
        /\ days_into_season(match) = WEEK_IN_DAYS * match.round
        /\ match.date.hour = MAX_MATCH_HOUR
        /\ match.date.minute = 0
        /\ match.date.second = 0

\* the teams in the slots of the round the calendar generated last
round_slots ==
    {match.home_team : match \in round_matches}
        \cup {match.away_team : match \in round_matches}

\* C23: every generated season has the rounds 1..count without gaps, where
\* count = floor((September 30 - season_start) / 7 days): the k-th round
\* generated is numbered k and no round follows round count; every round
\* has floor(team_count / 2) = 10 matches whose 20 slots hold the 19
\* non-Brisbane teams and the one chosen Brisbane team, each once.
C23_RoundsAndTeamsComplete ==
    calendar.view = "season" =>
        LET season_end == datetime(calendar.season, SEP, THIRTIETH)
            count == days_between(season_end, calendar.season_start) \div WEEK_IN_DAYS
        IN  /\ calendar.week_count = count
            /\ calendar.week \in 0..count
            /\ calendar.week > 0 =>
                /\ \A match \in round_matches : match.round = calendar.week
                /\ Len(calendar.round) = 10
                /\ Len(calendar.round) = (Len(NON_BRISBANE_TEAMS) + 1) \div 2
                /\ Cardinality(round_slots) = 20
                /\ \E b \in Range(BRISBANE_TEAMS) :
                    round_slots = Range(NON_BRISBANE_TEAMS) \cup {b}

\* the last round of a season of 29 rounds, generated with all its teams
C23_Witness ==
    /\ calendar.view = "season"
    /\ calendar.week = calendar.week_count
    /\ calendar.week_count = 29
    /\ \A match \in round_matches : match.round = 29
    /\ Cardinality(round_slots) = 20

\* September 30 of the season the calendar is of, at 00:00:00
season_end_of_calendar == datetime(calendar.season, SEP, THIRTIETH)

\* C30 as stated: for every season year, of 28 or 29 rounds, every match is
\* dated on or after season_start and strictly before September 30 of that
\* year, and the season of every match is the requested year.
C30_InsideSeason ==
    calendar.view = "season" =>
        /\ calendar.week_count \in {28, 29}
        /\ \A match \in round_matches :
            /\ days_into_season(match) >= 0
            /\ days_between(match.date, season_end_of_calendar) < 0
            /\ match.season = calendar.season

\* what holds of every match: it is dated on or after season_start and on or
\* before September 30, September 30 only in the last round of a season of 29
\* rounds that starts on March 11, and its season is the requested year
C30_UpToSeasonEnd ==
    calendar.view = "season" =>
        /\ calendar.week_count \in {28, 29}
        /\ \A match \in round_matches :
            /\ days_into_season(match) >= 0
            /\ days_between(match.date, season_end_of_calendar) <= 0
            /\ days_between(match.date, season_end_of_calendar) = 0 =>
                /\ match.round = 29
                /\ calendar.season_start = datetime(calendar.season, MAR, 11)
            /\ match.season = calendar.season

\* a match of round 29 dated September 30 at 20:00:00
C30_OnSeasonEnd ==
    /\ calendar.view = "season"
    /\ \E match \in round_matches :
        /\ match.round = 29
        /\ days_between(match.date, season_end_of_calendar) = 0
        /\ match.date.hour = MAX_MATCH_HOUR

(***************************************************************************)
(* Properties of the counters, labels and payouts of the views.            *)
(***************************************************************************)
\* the rows of a season, by position
season_rows(rows, season) == {i \in DOMAIN rows : rows[i].season = season}

\* C24: in fixtures(), season_game is a zero-based running counter within
\* each season in row order, the order in which the matches were generated:
\* the rows of a season of M matches carry 0..M-1 in row order, the counter
\* restarts at 0 at the first match of every season, and the rows are never
\* re-ordered by date.
C24_SeasonGameCountsFromZero ==
    (status = "constructed" /\ returned.view = "fixtures") =>
        /\ Len(returned.rows) = Len(base_matches)
        /\ \A i \in DOMAIN returned.rows :
            /\ returned.rows[i].home_team = base_matches[i].home_team
            /\ returned.rows[i].round = base_matches[i].round
        /\ \A season \in season_values(returned.rows) :
            LET of_season == season_rows(returned.rows, season)
            IN  /\ \A i \in of_season :
                    returned.rows[i].season_game =
                        Cardinality({j \in of_season : j < i})
                /\ {returned.rows[i].season_game : i \in of_season} =
                        0..(Cardinality(of_season) - 1)

\* fixtures of two seasons: the second season's first row, below the rows of
\* the first season, counts 0, and a row dated later than a row below it of
\* the same season keeps the lower count
C24_Witness ==
    /\ status = "constructed"
    /\ returned.view = "fixtures"
    /\ Cardinality(season_values(returned.rows)) = 2
    /\ \E i \in DOMAIN returned.rows :
        /\ i > 1
        /\ returned.rows[i].season /= returned.rows[1].season
        /\ returned.rows[i].season_game = 0
    /\ \E i, j \in DOMAIN returned.rows :
        /\ i < j
        /\ returned.rows[i].season = returned.rows[j].season
        /\ ~str_leq(returned.rows[i].date, returned.rows[j].date)
        /\ returned.rows[i].season_game < returned.rows[j].season_game

\* the stage names of the rounds that follow the first finals round
LATER_FINALS == <<"SF", "PF", "GF">>

\* C25: in players(), the last rounds of each season carry stage names in
\* order: the first finals round QF or EF, the following rounds SF, PF and
\* GF, the season's highest round always GF; every earlier round keeps its
\* number, as text; no non-final round has a stage name and no finals round
\* a number.
C25_FinalsLabelsInOrder ==
    (status = "constructed" /\ returned.view = "players") =>
        /\ Len(returned.ctx) = Len(base_matches)
        /\ \A season \in season_values(base_matches) :
            LET of_season == season_rows(base_matches, season)
                rounds == {base_matches[i].round : i \in of_season}
                highest == CHOOSE r \in rounds : \A q \in rounds : q <= r
                first_finals == highest - Len(LATER_FINALS)
                numbers == {ToString(r) : r \in rounds}
            IN  \A i \in of_season :
                    LET round == base_matches[i].round
                        label == returned.ctx[i].round
                    IN  /\ round < first_finals =>
                            /\ label = ToString(round)
                            /\ label \notin Range(FINALS_ROUND_LABELS)
                        /\ round = first_finals => label \in {"QF", "EF"}
                        /\ round > first_finals =>
                            label = LATER_FINALS[round - first_finals]
                        /\ round = highest => label = "GF"
                        /\ round >= first_finals => label \notin numbers

\* a players view of a season with a numbered round followed by the four
\* finals rounds
C25_Witness ==
    /\ status = "constructed"
    /\ returned.view = "players"
    /\ \E season \in season_values(base_matches) :
        LET of_season == season_rows(base_matches, season)
            label_of(round) ==
                {returned.ctx[i].round : i \in {j \in of_season : base_matches[j].round = round}}
        IN  \E highest \in {base_matches[i].round : i \in of_season} :
                /\ label_of(highest) = {"GF"}
                /\ label_of(highest - 1) = {"PF"}
                /\ label_of(highest - 2) = {"SF"}
                /\ label_of(highest - 3) \in {{"QF"}, {"EF"}}
                /\ label_of(highest - 4) = {ToString(highest - 4)}

\* C26: CandyStore(N) with a positive N so large that no start year is left,
\* N > current_year - FIRST_AFL_SEASON + 1, fails at construction and leaves
\* no schedule; no CandyStore(N) with a positive N holds or returns a season
\* earlier than FIRST_AFL_SEASON or later than the current year.
C26_IntSeasonsInsideHistory ==
    (status /= "new" /\ seasons.kind = "int" /\ seasons.val > 0) =>
        /\ seasons.val > current_year - FIRST_AFL_SEASON + 1 =>
            /\ status = "raised"
            /\ error.type = "ValueError"
            /\ season_range = <<>>
            /\ base_matches = <<>>
            /\ returned = Nothing
        /\ status = "constructed" =>
            /\ seasons.val <= current_year - FIRST_AFL_SEASON + 1
            /\ Range(season_range) \subseteq FIRST_AFL_SEASON..current_year
            /\ season_values(base_matches) \subseteq FIRST_AFL_SEASON..current_year
            /\ returned.view \in ROW_VIEWS =>
                season_values(returned.rows) \subseteq FIRST_AFL_SEASON..current_year
            /\ returned.view = "players" =>
                season_values(returned.ctx) \subseteq FIRST_AFL_SEASON..current_year

\* CandyStore(N) with the first N that leaves no start year has failed
C26_Witness ==
    /\ status = "raised"
    /\ seasons.kind = "int"
    /\ seasons.val = current_year - FIRST_AFL_SEASON + 2
    /\ error.type = "ValueError"
    /\ base_matches = <<>>

\* CandyStore(2) whose seasons end at the current year has returned fixtures
C26_WitnessLatest ==
    /\ status = "constructed"
    /\ seasons.kind = "int"
    /\ seasons.val = 2
    /\ returned.view = "fixtures"
    /\ season_values(returned.rows) = {current_year - 1, current_year}

\* the per-season counter of the rows of a fixtures or match_results view
counter_of(out) ==
    [i \in DOMAIN out.rows |->
        IF out.view = "fixtures" THEN out.rows[i].season_game ELSE out.rows[i].game]

\* C27: on every instance and for every match position i, the game counter of
\* match_results() equals the season_game counter of fixtures(): whenever one
\* of the two accessors is called after the other, row i of the one result
\* and row i of the other are of the same match and carry the same count.
C27_GameIsSeasonGame ==
    [][(/\ {returned.view, returned'.view} = {"fixtures", "match_results"})
        => /\ DOMAIN returned'.rows = DOMAIN returned.rows
           /\ \A i \in DOMAIN returned.rows :
                /\ returned'.rows[i].season = returned.rows[i].season
                /\ returned'.rows[i].home_team = returned.rows[i].home_team
                /\ returned'.rows[i].away_team = returned.rows[i].away_team
           /\ counter_of(returned') = counter_of(returned)]_vars

\* match_results() of two seasons, called after another accessor: the first
\* row of the second season counts 0 again
C27_Witness ==
    /\ status = "constructed"
    /\ returned.view = "match_results"
    /\ first_call.later
    /\ Cardinality(season_values(returned.rows)) = 2
    /\ \E i \in DOMAIN returned.rows :
        /\ i > 1
        /\ returned.rows[i].season /= returned.rows[1].season
        /\ returned.rows[i].game = 0
        /\ returned.rows[i - 1].game = i - 2

\* C28: in players(), the label of the first finals round is drawn once per
\* season and per call: the rows of all matches of the same season and the
\* same base round carry the same round label, and within a season of a
\* result QF and EF never both appear.
C28_OneFirstFinalsLabel ==
    (status = "constructed" /\ returned.view = "players") =>
        /\ PlayerRowsAligned
        /\ \A season \in season_values(base_matches) :
            LET of_season == season_rows(base_matches, season)
                labels_of(round) ==
                    {returned.ctx[i].round :
                        i \in {j \in of_season : base_matches[j].round = round}}
                labels == {returned.ctx[i].round : i \in of_season}
            IN  /\ \A round \in {base_matches[i].round : i \in of_season} :
                    Cardinality(labels_of(round)) = 1
                /\ ~({"QF", "EF"} \subseteq labels)
                /\ \A i \in of_season : returned.ctx[i].season = season

\* a players view of two seasons, the first finals round of the one labelled
\* QF in all its matches and that of the other EF
C28_Witness ==
    /\ status = "constructed"
    /\ returned.view = "players"
    /\ \E s, t \in season_values(base_matches) :
        /\ s /= t
        /\ "QF" \in {returned.ctx[i].round : i \in season_rows(base_matches, s)}
        /\ "EF" \in {returned.ctx[i].round : i \in season_rows(base_matches, t)}
        /\ Cardinality({i \in season_rows(base_matches, s) :
                            returned.ctx[i].round = "QF"}) = match_count

\* C29: in every row of betting_odds() at most one side is paid:
\* home_win_paid and away_win_paid are never both non-zero, home_line_paid and
\* away_line_paid are never both non-zero, and in a drawn match (home_score =
\* away_score) the four paid fields are zero.
C29_AtMostOneSidePaid ==
    (status = "constructed" /\ returned.view = "betting_odds") =>
        \A i \in DOMAIN returned.rows :
            LET row == returned.rows[i]
            IN  /\ ~(row.home_win_paid /= 0 /\ row.away_win_paid /= 0)
                /\ ~(row.home_line_paid /= 0 /\ row.away_line_paid /= 0)
                /\ row.home_score = row.away_score =>
                    /\ row.home_win_paid = 0
                    /\ row.away_win_paid = 0
                    /\ row.home_line_paid = 0
                    /\ row.away_line_paid = 0

\* betting odds with a drawn match, no side paid, and a match the away side
\* won, the away side alone paid
C29_Witness ==
    /\ status = "constructed"
    /\ returned.view = "betting_odds"
    /\ \E i, j \in DOMAIN returned.rows :
        /\ returned.rows[i].home_score = returned.rows[i].away_score
        /\ returned.rows[i].home_win_paid = 0
        /\ returned.rows[i].away_line_paid = 0
        /\ returned.rows[j].away_score > returned.rows[j].home_score
        /\ returned.rows[j].away_win_paid > 0
        /\ returned.rows[j].away_line_paid > 0
        /\ returned.rows[j].home_win_paid = 0
        /\ returned.rows[j].home_line_paid = 0

====
